---- MODULE Spec2Model ----
(***************************************************************************)
(* Model of the viewport workarounds of imgui-rs:                          *)
(*   viewport_issue_fix.rs  - re-applying ConfigFlags::VIEWPORTS_ENABLE    *)
(*   monitor_init_fix.rs    - populating PlatformIO.Monitors               *)
(* together with the native frame steps (new_frame, render,                *)
(* update_platform_windows, render_platform_windows_default) the           *)
(* workarounds are written against, and with the viewport accessors of    *)
(* platform_io.rs as a client's render loop uses them.                     *)
(*                                                                         *)
(* Two clients are specified: Spec makes the calls in any order, LoopSpec  *)
(* runs the set-up and frame loop of the tests and examples.               *)
(*                                                                         *)
(* Representation.                                                         *)
(*  - A flags word is the set of the bits that are set in it: `a |= b` is  *)
(*    a \cup b, `a & b != 0` is a \cap b # {}.                             *)
(*  - f32 values are copied and compared, never computed with; they are    *)
(*    integers here (dpi_scale in hundredths, 1.5 = 150).                  *)
(*  - An ImVector is the sequence of its elements, its Size is Len.        *)
(***************************************************************************)
EXTENDS Integers, Sequences, FiniteSets, TLC

VARIABLES
    docking,        \* cargo feature "docking" of the build (fixed per behaviour);
                    \* monitor_init_fix.rs:85,196
    ConfigFlags,    \* native ImGuiIO::ConfigFlags of the current context;
                    \* viewport_issue_fix.rs:52-54
    Monitors,       \* native ImGuiPlatformIO::Monitors (PlatformIo.monitors);
                    \* platform_io.rs:151-154
    phase,          \* position of the caller in the frame: idle/frame/rendered/updated;
                    \* platform_io.rs:37-54
    frame_count,    \* number of new_frame() calls so far
    asserted,       \* the native assertion "Platform init didn't setup Monitors list?"
                    \* was reached; monitor_init_fix.rs:3-6
    \* history of the run, read by the properties only
    last_call,      \* the last operation called, with its arguments
    fix_pending,    \* apply_viewport_fix was called since the last render() (or since creation)
    nf_fixed,       \* fix_pending at the latest new_frame() call
    nf_flag,        \* VIEWPORTS_ENABLE was set at the latest new_frame() call
    all_fixed,      \* every new_frame() so far was called with fix_pending
    flag_hist,      \* life of the VIEWPORTS_ENABLE bit: never_set / set / cleared_by_render
    mon_hist,       \* kind of the last monitor-list call: none / init_nonempty / init_empty / cleared
    mon_at_first_frame,  \* mon_hist at the first new_frame() call
    mon_call_in_loop,    \* a monitor-list call was made after the first new_frame()
    frames_since_mon,    \* render() calls completed since the last monitor-list call
    mon_len,             \* length of the slice the last monitor-list call passed (0 for clear)
    render_cleared,      \* the latest render() reset the VIEWPORTS_ENABLE bit
    \* viewports of the context
    viewports,      \* native ImGuiPlatformIO::Viewports, the Viewport structs in order;
                    \* platform_io.rs:155-157, 226-260
    viewports_active,    \* VIEWPORTS_ENABLE as the running frame saw it at new_frame();
                         \* viewport_issue_fix.rs:3-7
    \* the client program running a render loop (platform_io.rs:37-54)
    stage,          \* free / enable / monitors / loop / done
    step,           \* index of the next step of the loop body
    iter,           \* index of the next viewport of a `for viewport in ctx.viewports()`
    loop_kind,      \* which loop body the client runs
    fix_style,      \* how the client enables and re-applies VIEWPORTS_ENABLE
    ext_outside,    \* the UI of the running frame positions a window outside the main viewport
    \* history of the render loop, read by the properties only
    create_window_calls, \* number of create_window callbacks invoked so far
    calls_in_frame,      \* the native frame steps called since the latest new_frame(), in order
    last_read            \* the latest look at a viewport: what was read and what came back

loop_vars == <<viewports, viewports_active, stage, step, iter, loop_kind, fix_style,
               ext_outside, create_window_calls, calls_in_frame, last_read>>

vars == <<docking, ConfigFlags, Monitors, phase, frame_count, asserted, last_call,
          fix_pending, nf_fixed, nf_flag, all_fixed, flag_hist, mon_hist,
          mon_at_first_frame, mon_call_in_loop, frames_since_mon, mon_len, render_cleared,
          viewports, viewports_active, stage, step, iter, loop_kind, fix_style,
          ext_outside, create_window_calls, calls_in_frame, last_read>>

----------------------------------------------------------------------------
(* Bounds and input sets *)

MaxFrames == 3
MaxMonitors == 2

Widths == {1920}
Heights == {1080}
Scales == {100, 150}

\* faulty variant: a 1280 x 720 monitor
MonitorData_default_720p ==
    [position |-> <<0, 0>>, size |-> <<1280, 720>>,
     work_pos |-> <<0, 0>>, work_size |-> <<1280, 720>>, dpi_scale |-> 100]

\* MonitorData::default()
MonitorData_default ==
    [position |-> <<0, 0>>, size |-> <<1920, 1080>>,
     work_pos |-> <<0, 0>>, work_size |-> <<1920, 1080>>, dpi_scale |-> 100]

\* the monitor descriptions callers pass in
MonitorDataSet ==
    { MonitorData_default,
      [position |-> <<1920, 0>>, size |-> <<2560, 1440>>,
       work_pos |-> <<1920, 40>>, work_size |-> <<2560, 1400>>, dpi_scale |-> 150] }

MonitorSlices == UNION { [1..n -> MonitorDataSet] : n \in 0..MaxMonitors }

----------------------------------------------------------------------------
(* Config flags *)

VIEWPORTS_ENABLE == "VIEWPORTS_ENABLE"
DOCKING_ENABLE == "DOCKING_ENABLE"
ConfigFlagBits == {VIEWPORTS_ENABLE, DOCKING_ENABLE}

\* sys::ImGuiConfigFlags_ViewportsEnable as i32
viewport_bit == {VIEWPORTS_ENABLE}

\* sys::igGetIO() / sys::igGetPlatformIO(): a Context value exists only while
\* its native context is current, so the pointers are not null
io_ptr_is_null == FALSE

\* ctx.io().config_flags: Context::io() reads the ImGuiIO structure that
\* sys::igGetIO() points to, the same word as (*io_ptr).ConfigFlags
io_config_flags == ConfigFlags

\* (*sys::igGetIO()).ConfigFlags
cpp_flags == ConfigFlags

----------------------------------------------------------------------------
(* viewport_issue_fix.rs *)

\* faulty variant: `&=` written for `|=`
apply_viewport_fix_and_assign(flags) ==
    LET rust_side == flags \cap {VIEWPORTS_ENABLE}
    IN  IF ~io_ptr_is_null
        THEN rust_side \cap viewport_bit
        ELSE rust_side

\* faulty variant: `^=` written for `|=`, on the native word
apply_viewport_fix_toggles(flags) ==
    LET rust_side == flags \cup {VIEWPORTS_ENABLE}
    IN  IF ~io_ptr_is_null
        THEN (rust_side \ viewport_bit) \cup (viewport_bit \ rust_side)
        ELSE rust_side

\* faulty variant: one write only, through the native pointer, with `^=` for `|=`
apply_viewport_fix_xor_native(flags) ==
    IF ~io_ptr_is_null
    THEN (flags \ viewport_bit) \cup (viewport_bit \ flags)
    ELSE flags \cup {VIEWPORTS_ENABLE}

\* faulty variant: `=` written for `|=`
apply_viewport_fix_assigns(flags) ==
    LET rust_side == {VIEWPORTS_ENABLE}
    IN  IF ~io_ptr_is_null
        THEN viewport_bit
        ELSE rust_side

\* apply_viewport_fix: the flags word after the call, given the word before it
apply_viewport_fix(flags) ==
    LET rust_side == flags \cup {VIEWPORTS_ENABLE}   \* ctx.io_mut().config_flags |= ...
    IN  IF ~io_ptr_is_null
        THEN rust_side \cup viewport_bit              \* (*io_ptr).ConfigFlags |= ...
        ELSE rust_side

\* is_viewport_issue_present(ctx)
is_viewport_issue_present ==
    IF ~io_ptr_is_null
    THEN LET cpp_has_flag == (cpp_flags \cap viewport_bit) # {}
             rust_expects_flag == VIEWPORTS_ENABLE \in io_config_flags
         IN  rust_expects_flag /\ ~cpp_has_flag
    ELSE FALSE

----------------------------------------------------------------------------
(* monitor_init_fix.rs *)

NullHandle == "null"

\* faulty variant: work_size filled from the monitor's full size
to_platform_monitor_full_work_size(data) ==
    [main_pos |-> data.position,
     main_size |-> data.size,
     work_pos |-> data.work_pos,
     work_size |-> data.size,
     dpi_scale |-> data.dpi_scale,
     platform_handle |-> NullHandle]

\* the closure of init_monitors: MonitorData -> PlatformMonitor
to_platform_monitor(data) ==
    [main_pos |-> data.position,
     main_size |-> data.size,
     work_pos |-> data.work_pos,
     work_size |-> data.work_size,
     dpi_scale |-> data.dpi_scale,
     platform_handle |-> NullHandle]

\* ImVector::replace_from_slice: the vector's elements after the call
replace_from_slice(vec, slice) == slice

\* faulty variant: the null check inverted, so the call returns before replacing
init_monitors_inverted_null_check(monitors) ==
    IF ~docking THEN Monitors
    ELSE IF ~io_ptr_is_null THEN Monitors
    ELSE LET platform_monitors ==
                 [i \in 1..Len(monitors) |-> to_platform_monitor(monitors[i])]
         IN  replace_from_slice(Monitors, platform_monitors)

\* faulty variant: the docking stub populates the list like the docking build
init_monitors_stub_populates(monitors) ==
    IF io_ptr_is_null THEN Monitors
    ELSE LET platform_monitors ==
                 [i \in 1..Len(monitors) |-> to_platform_monitor(monitors[i])]
         IN  replace_from_slice(Monitors, platform_monitors)

\* faulty variant: the converted monitors are pushed after the existing ones
init_monitors_appends(monitors) ==
    IF ~docking THEN Monitors
    ELSE IF io_ptr_is_null THEN Monitors
    ELSE LET platform_monitors ==
                 [i \in 1..Len(monitors) |-> to_platform_monitor(monitors[i])]
         IN  Monitors \o platform_monitors

\* faulty variant: an empty slice makes the call return before replacing
init_monitors_returns_on_empty(monitors) ==
    IF ~docking THEN Monitors
    ELSE IF io_ptr_is_null THEN Monitors
    ELSE IF Len(monitors) = 0 THEN Monitors
    ELSE LET platform_monitors ==
                 [i \in 1..Len(monitors) |-> to_platform_monitor(monitors[i])]
         IN  replace_from_slice(Monitors, platform_monitors)

\* init_monitors(ctx, monitors): the Monitors vector after the call
init_monitors(monitors) ==
    IF ~docking THEN Monitors                   \* #[cfg(not(feature = "docking"))] stub
    ELSE IF io_ptr_is_null THEN Monitors
    ELSE LET platform_monitors ==
                 [i \in 1..Len(monitors) |-> to_platform_monitor(monitors[i])]
         IN  replace_from_slice(Monitors, platform_monitors)

\* faulty variant: width and height swapped in the sizes
single_monitor_swapped(width, height, dpi_scale) ==
    [position |-> <<0, 0>>,
     size |-> <<height, width>>,
     work_pos |-> <<0, 0>>,
     work_size |-> <<height, width>>,
     dpi_scale |-> dpi_scale]

\* the MonitorData init_single_monitor builds
single_monitor(width, height, dpi_scale) ==
    [position |-> <<0, 0>>,
     size |-> <<width, height>>,
     work_pos |-> <<0, 0>>,
     work_size |-> <<width, height>>,
     dpi_scale |-> dpi_scale]

\* init_single_monitor(ctx, width, height, dpi_scale): the Monitors vector after the call
init_single_monitor(width, height, dpi_scale) ==
    IF ~docking THEN Monitors                   \* stub
    ELSE init_monitors(<<single_monitor(width, height, dpi_scale)>>)

\* faulty variant: the list is replaced by itself
clear_monitors_keeps ==
    IF ~docking THEN Monitors
    ELSE IF io_ptr_is_null THEN Monitors
    ELSE replace_from_slice(Monitors, Monitors)

\* faulty variant: the list is cleared only while viewports are disabled
clear_monitors_unless_viewports ==
    IF ~docking THEN Monitors
    ELSE IF io_ptr_is_null THEN Monitors
    ELSE IF VIEWPORTS_ENABLE \in ConfigFlags THEN Monitors
    ELSE replace_from_slice(Monitors, <<>>)

\* clear_monitors(ctx): the Monitors vector after the call
clear_monitors ==
    IF ~docking THEN Monitors                   \* stub
    ELSE IF io_ptr_is_null THEN Monitors
    ELSE replace_from_slice(Monitors, <<>>)

\* faulty variant: `>= 0` written for `> 0`
monitors_initialized_ge ==
    IF ~docking THEN FALSE
    ELSE IF io_ptr_is_null THEN FALSE
    ELSE Len(Monitors) >= 0

\* faulty variant: `> 1` written for `> 0`
monitors_initialized_gt_one ==
    IF ~docking THEN FALSE
    ELSE IF io_ptr_is_null THEN FALSE
    ELSE Len(Monitors) > 1

\* monitors_initialized(ctx)
monitors_initialized ==
    IF ~docking THEN FALSE
    ELSE IF io_ptr_is_null THEN FALSE
    ELSE Len(Monitors) > 0                      \* (*monitors_ptr).Size > 0

\* faulty variant: the count is one less than the vector's Size
monitor_count_off_by_one ==
    IF ~docking THEN 0
    ELSE IF io_ptr_is_null THEN 0
    ELSE IF Len(Monitors) > 0 THEN Len(Monitors) - 1 ELSE 0

\* monitor_count(ctx)
monitor_count ==
    IF ~docking THEN 0
    ELSE IF io_ptr_is_null THEN 0
    ELSE Len(Monitors)                          \* (*monitors_ptr).Size as usize

----------------------------------------------------------------------------
(* Viewports: platform_io.rs, and the closure of viewport_issue_fix.rs *)

\* a null `*mut DrawData`; a non-null one is the number of the frame whose
\* render() produced the data it points to
NullPtr == 0

\* const IMGUI_VIEWPORT_DEFAULT_ID: u32 = 0x11111111
IMGUI_VIEWPORT_DEFAULT_ID == 286331153

\* ids of viewports other than the main one (123 is the id the null-safety
\* test gives the viewport it builds)
ExtViewportIds == {123}

\* values of Viewport.platform_handle: null, or the OS window of a backend
Handles == {NullHandle, "os_window"}

\* Option<T>
None(null) == [tag |-> "None", value |-> null]
Some(v) == [tag |-> "Some", value |-> v]

\* faulty variant: the null test inverted, so a null pointer is dereferenced
draw_data_inverted(vp) ==
    IF vp.draw_data # NullPtr THEN None(NullPtr)
    ELSE Some(vp.draw_data)

\* Viewport::draw_data(&self) -> Option<&DrawData>
draw_data(vp) ==
    IF vp.draw_data = NullPtr THEN None(NullPtr)
    ELSE Some(vp.draw_data)                     \* Some(unsafe { &*self.draw_data })

\* faulty variant: the id compared with 0x1111111, one digit short
is_main_short_id(vp) == vp.id = 17895697

\* Viewport::is_main(&self) -> bool
is_main(vp) == vp.id = IMGUI_VIEWPORT_DEFAULT_ID

\* faulty variant: Some is returned whatever the handle is
platform_handle_as_always_some(vp) == Some(vp.platform_handle)

\* Viewport::platform_handle_as::<T>(&self) -> Option<&T>
platform_handle_as(vp) ==
    IF vp.platform_handle = NullHandle THEN None(NullHandle)
    ELSE Some(vp.platform_handle)               \* Some(unsafe { &*(self.platform_handle as *const T) })

\* the main viewport a context is created with
MainViewport(handle) ==
    [id |-> IMGUI_VIEWPORT_DEFAULT_ID, draw_data |-> NullPtr,
     platform_handle |-> handle, platform_window_created |-> TRUE]

\* the viewport the library adds for a window outside the main viewport
NewViewport(id) ==
    [id |-> id, draw_data |-> NullPtr,
     platform_handle |-> NullHandle, platform_window_created |-> FALSE]

\* ctx.main_viewport()
main_viewport == viewports[1]

\* faulty variant: the closure captures nothing and does nothing
fix_closure_does_nothing(flags) == flags

\* the closure initialize_viewport_support_with_fix returns: move |ctx| { apply_viewport_fix(ctx); }
fix_closure(flags) == apply_viewport_fix(flags)

\* initialize_viewport_support_with_fix(ctx): the flags word after the call
initialize_viewport_support_with_fix(flags) == apply_viewport_fix(flags)

----------------------------------------------------------------------------
(* State machine *)

Call(op, ms, w, h, d) ==
    [op |-> op, monitors |-> ms, width |-> w, height |-> h, dpi_scale |-> d,
     pre |-> flag_hist, pre_mon |-> mon_hist, pre_len |-> mon_len]

\* what a look at a viewport leaves in last_read before any was made
NoRead ==
    [via |-> "none", id |-> 0, frame |-> 0, main |-> FALSE, ptr |-> NullPtr,
     dd |-> None(NullPtr), raw_handle |-> NullHandle, handle |-> None(NullHandle),
     calls |-> <<>>]

\* Context::create(): the context, and the history of a run that has not begun
Context_create ==
    /\ ConfigFlags = {}
    /\ Monitors = <<>>
    /\ phase = "idle"
    /\ frame_count = 0
    /\ asserted = FALSE
    /\ last_call = [op |-> "create", monitors |-> <<>>, width |-> 0, height |-> 0,
                    dpi_scale |-> 0, pre |-> "never_set", pre_mon |-> "none",
                    pre_len |-> 0]
    /\ fix_pending = FALSE
    /\ nf_fixed = FALSE
    /\ nf_flag = FALSE
    /\ all_fixed = TRUE
    /\ flag_hist = "never_set"
    /\ mon_hist = "none"
    /\ mon_at_first_frame = "none"
    /\ mon_call_in_loop = FALSE
    /\ frames_since_mon = 0
    /\ mon_len = 0
    /\ render_cleared = FALSE
    /\ viewports_active = FALSE
    /\ ext_outside = FALSE
    /\ create_window_calls = 0
    /\ calls_in_frame = <<>>
    /\ last_read = NoRead

Init ==
    /\ docking \in BOOLEAN
    /\ Context_create
    /\ viewports = <<MainViewport(NullHandle)>>
    /\ stage = "free"
    /\ step = 1
    /\ iter = 1
    /\ loop_kind = "none"
    /\ fix_style = "none"

frame_vars == <<phase, frame_count, asserted, nf_fixed, nf_flag, all_fixed, mon_at_first_frame>>
mon_vars == <<Monitors, mon_hist, mon_call_in_loop, frames_since_mon, mon_len>>
flag_vars == <<ConfigFlags, fix_pending, flag_hist, render_cleared>>

\* ctx.io_mut().config_flags |= bit   (the callers' way of enabling a feature)
ctx_set_config_flag(bit) ==
    /\ ~asserted
    /\ docking
    /\ ConfigFlags' = ConfigFlags \cup {bit}
    /\ flag_hist' = IF bit = VIEWPORTS_ENABLE THEN "set" ELSE flag_hist
    /\ last_call' = Call("set_flag", <<>>, 0, 0, 0)
    /\ UNCHANGED <<docking, fix_pending, render_cleared>>
    /\ UNCHANGED frame_vars
    /\ UNCHANGED mon_vars

\* viewport_issue_fix::apply_viewport_fix(&mut ctx)
ctx_apply_viewport_fix ==
    /\ ~asserted
    /\ docking
    /\ ConfigFlags' = apply_viewport_fix(ConfigFlags)
    /\ flag_hist' = IF VIEWPORTS_ENABLE \in ConfigFlags' THEN "set" ELSE flag_hist
    /\ fix_pending' = TRUE
    /\ last_call' = Call("apply_viewport_fix", <<>>, 0, 0, 0)
    /\ UNCHANGED <<docking, render_cleared>>
    /\ UNCHANGED frame_vars
    /\ UNCHANGED mon_vars

MonitorCall(kind, len) ==
    /\ mon_hist' = kind
    /\ mon_len' = len
    /\ mon_call_in_loop' = (mon_call_in_loop \/ frame_count > 0)
    /\ frames_since_mon' = 0
    /\ UNCHANGED docking
    /\ UNCHANGED frame_vars
    /\ UNCHANGED flag_vars

\* monitor_init_fix::init_monitors(&mut ctx, &ms)
ctx_init_monitors(ms) ==
    /\ ~asserted
    /\ Monitors' = init_monitors(ms)
    /\ last_call' = Call("init_monitors", ms, 0, 0, 0)
    /\ MonitorCall(IF Len(ms) > 0 THEN "init_nonempty" ELSE "init_empty", Len(ms))

\* monitor_init_fix::init_single_monitor(&mut ctx, w, h, d)
ctx_init_single_monitor(w, h, d) ==
    /\ ~asserted
    /\ Monitors' = init_single_monitor(w, h, d)
    /\ last_call' = Call("init_single_monitor", <<single_monitor(w, h, d)>>, w, h, d)
    /\ MonitorCall("init_nonempty", 1)

\* monitor_init_fix::clear_monitors(&mut ctx)
ctx_clear_monitors ==
    /\ ~asserted
    /\ Monitors' = clear_monitors
    /\ last_call' = Call("clear_monitors", <<>>, 0, 0, 0)
    /\ MonitorCall("cleared", 0)

\* the native precondition of multi-viewport support: with viewports enabled
\* the monitor list must not be empty
MonitorsPreconditionUnmet == VIEWPORTS_ENABLE \in ConfigFlags /\ Len(Monitors) = 0

\* a native frame step may reach the assertion when the precondition is unmet
NativeAssert == asserted' \in (IF MonitorsPreconditionUnmet THEN BOOLEAN ELSE {FALSE})

\* ctx.new_frame()
ctx_new_frame ==
    /\ ~asserted
    /\ phase' = "frame"
    /\ frame_count' = frame_count + 1
    /\ NativeAssert
    /\ nf_fixed' = fix_pending
    /\ nf_flag' = (VIEWPORTS_ENABLE \in io_config_flags)
    /\ all_fixed' = (all_fixed /\ fix_pending)
    /\ mon_at_first_frame' = IF frame_count = 0 THEN mon_hist ELSE mon_at_first_frame
    /\ last_call' = Call("new_frame", <<>>, 0, 0, 0)
    /\ UNCHANGED docking
    /\ UNCHANGED mon_vars
    /\ UNCHANGED flag_vars

\* what render() may leave in ImGuiIO::ConfigFlags: the word untouched, the
\* VIEWPORTS_ENABLE bit reset, or the whole word cleared
RenderOutcomes(flags) == {flags, flags \ viewport_bit, {}}

\* what the first render() of a context leaves: the VIEWPORTS_ENABLE bit is
\* reset there, alone or with the whole word
FirstRenderOutcomes(flags) == {flags \ viewport_bit, {}}

\* ctx.render()
ctx_render ==
    /\ ~asserted
    /\ phase' = "rendered"
    /\ NativeAssert
    /\ ConfigFlags' \in (IF frame_count <= 1               \* no render() has returned yet
                          THEN FirstRenderOutcomes(ConfigFlags)
                          ELSE RenderOutcomes(ConfigFlags))
    /\ flag_hist' = IF VIEWPORTS_ENABLE \in ConfigFlags /\ VIEWPORTS_ENABLE \notin ConfigFlags'
                    THEN "cleared_by_render" ELSE flag_hist
    /\ render_cleared' = (VIEWPORTS_ENABLE \in ConfigFlags /\ VIEWPORTS_ENABLE \notin ConfigFlags')
    /\ fix_pending' = FALSE
    /\ frames_since_mon' = IF frames_since_mon < MaxFrames THEN frames_since_mon + 1
                           ELSE frames_since_mon
    /\ last_call' = Call("render", <<>>, 0, 0, 0)
    /\ UNCHANGED <<docking, frame_count, nf_fixed, nf_flag, all_fixed, mon_at_first_frame>>
    /\ UNCHANGED <<Monitors, mon_hist, mon_call_in_loop, mon_len>>

\* ctx.update_platform_windows()
ctx_update_platform_windows ==
    /\ ~asserted
    /\ docking
    /\ phase' = "updated"
    /\ NativeAssert
    /\ last_call' = Call("update_platform_windows", <<>>, 0, 0, 0)
    /\ UNCHANGED <<docking, frame_count, nf_fixed, nf_flag, all_fixed, mon_at_first_frame>>
    /\ UNCHANGED mon_vars
    /\ UNCHANGED flag_vars

\* ctx.render_platform_windows_default()
ctx_render_platform_windows_default ==
    /\ ~asserted
    /\ docking
    /\ phase' = "idle"
    /\ NativeAssert
    /\ last_call' = Call("render_platform_windows_default", <<>>, 0, 0, 0)
    /\ UNCHANGED <<docking, frame_count, nf_fixed, nf_flag, all_fixed, mon_at_first_frame>>
    /\ UNCHANGED mon_vars
    /\ UNCHANGED flag_vars

(* A client that makes the calls in any order, a frame's steps in theirs *)

SetConfigFlag(bit) == ctx_set_config_flag(bit) /\ UNCHANGED loop_vars

ApplyViewportFix == ctx_apply_viewport_fix /\ UNCHANGED loop_vars

InitMonitors(ms) == ctx_init_monitors(ms) /\ UNCHANGED loop_vars

InitSingleMonitor(w, h, d) == ctx_init_single_monitor(w, h, d) /\ UNCHANGED loop_vars

ClearMonitors == ctx_clear_monitors /\ UNCHANGED loop_vars

NewFrame ==
    /\ phase # "frame"
    /\ frame_count < MaxFrames
    /\ ctx_new_frame
    /\ UNCHANGED loop_vars

Render ==
    /\ phase = "frame"
    /\ ctx_render
    /\ UNCHANGED loop_vars

UpdatePlatformWindows ==
    /\ phase = "rendered"
    /\ ctx_update_platform_windows
    /\ UNCHANGED loop_vars

RenderPlatformWindowsDefault ==
    /\ phase = "updated"
    /\ ctx_render_platform_windows_default
    /\ UNCHANGED loop_vars

Next ==
    \/ \E bit \in ConfigFlagBits : SetConfigFlag(bit)
    \/ ApplyViewportFix
    \/ \E ms \in MonitorSlices : InitMonitors(ms)
    \/ \E w \in Widths, h \in Heights, d \in Scales : InitSingleMonitor(w, h, d)
    \/ ClearMonitors
    \/ NewFrame
    \/ Render
    \/ UpdatePlatformWindows
    \/ RenderPlatformWindowsDefault

Spec == Init /\ [][Next]_vars

----------------------------------------------------------------------------
(* A client that runs a render loop: set-up, then MaxFrames frames *)

LoopKinds == {"main_first", "uniform", "probe"}
FixStyles == {"apply", "closure", "flag_once"}

\* monitor lists a client hands to init_monitors at set-up (none, or one monitor)
SetupMonitorSlices == {ms \in MonitorSlices : Len(ms) <= 1}

\* faulty variant: update_platform_windows() called ahead of render()
LoopBody_update_first(kind) ==
    IF kind = "main_first"
    THEN <<"new_frame", "build_ui", "update_platform_windows", "render", "read_main",
           "read_viewports", "render_platform_windows_default">>
    ELSE <<"new_frame", "build_ui", "update_platform_windows", "render",
           "read_viewports", "render_platform_windows_default">>

\* faulty variant: the viewports' draw data is read at the top of the frame,
\* ahead of render()
LoopBody_read_first(kind) ==
    IF kind = "main_first"
    THEN <<"new_frame", "read_viewports", "build_ui", "render", "read_main",
           "update_platform_windows", "render_platform_windows_default">>
    ELSE <<"new_frame", "read_viewports", "build_ui", "render",
           "update_platform_windows", "render_platform_windows_default">>

\* the steps of one frame, in the order the client makes them:
\*   main_first  render_all_viewports: the main draw data from render(), the
\*               other viewports after update_platform_windows()
\*   uniform     render_all_viewports_uniform: every viewport after
\*               update_platform_windows()
\*   probe       the null-safety tests' look at every viewport between
\*               new_frame() and render(), then the frame's remaining steps
LoopBody(kind) ==
    IF kind = "main_first"
    THEN <<"new_frame", "build_ui", "render", "read_main", "update_platform_windows",
           "read_viewports", "render_platform_windows_default">>
    ELSE IF kind = "uniform"
    THEN <<"new_frame", "build_ui", "render", "update_platform_windows",
           "read_viewports", "render_platform_windows_default">>
    ELSE <<"new_frame", "build_ui", "read_viewports", "render",
           "update_platform_windows", "render_platform_windows_default">>

\* a frame's steps with the fix in front of new_frame() when the client re-applies it
FrameSteps ==
    (IF fix_style = "flag_once" THEN <<>> ELSE <<"fix">>) \o LoopBody(loop_kind)

CurrentStep == IF stage = "loop" THEN FrameSteps[step] ELSE stage

\* the client moves to the next step, to the next frame, or leaves the loop
Advance ==
    /\ step' = IF step < Len(FrameSteps) THEN step + 1 ELSE 1
    /\ stage' = IF step < Len(FrameSteps) \/ frame_count < MaxFrames
                THEN "loop" ELSE "done"

LoopInit ==
    /\ docking = TRUE
    /\ Context_create
    /\ \E h \in Handles : viewports = <<MainViewport(h)>>
    /\ stage = "enable"
    /\ step = 1
    /\ iter = 1
    /\ loop_kind \in LoopKinds
    /\ fix_style \in FixStyles

program_vars == <<loop_kind, fix_style>>
view_vars == <<viewports, viewports_active, ext_outside, create_window_calls,
               calls_in_frame, last_read>>

\* viewport_issue_fix::initialize_viewport_support_with_fix(&mut ctx)
ctx_initialize_viewport_support_with_fix ==
    /\ ~asserted
    /\ docking
    /\ ConfigFlags' = initialize_viewport_support_with_fix(ConfigFlags)
    /\ flag_hist' = IF VIEWPORTS_ENABLE \in ConfigFlags' THEN "set" ELSE flag_hist
    /\ fix_pending' = TRUE
    /\ last_call' = Call("initialize_viewport_support_with_fix", <<>>, 0, 0, 0)
    /\ UNCHANGED <<docking, render_cleared>>
    /\ UNCHANGED frame_vars
    /\ UNCHANGED mon_vars

\* a call of the closure initialize_viewport_support_with_fix returned
ctx_fix_closure ==
    /\ ~asserted
    /\ docking
    /\ ConfigFlags' = fix_closure(ConfigFlags)
    /\ flag_hist' = IF VIEWPORTS_ENABLE \in ConfigFlags' THEN "set" ELSE flag_hist
    /\ fix_pending' = TRUE
    /\ last_call' = Call("fix_closure", <<>>, 0, 0, 0)
    /\ UNCHANGED <<docking, render_cleared>>
    /\ UNCHANGED frame_vars
    /\ UNCHANGED mon_vars

\* set-up: apply_viewport_fix(&mut ctx)
LoopEnableApply ==
    /\ stage = "enable"
    /\ fix_style = "apply"
    /\ ctx_apply_viewport_fix
    /\ stage' = "monitors"
    /\ UNCHANGED <<step, iter>>
    /\ UNCHANGED program_vars
    /\ UNCHANGED view_vars

\* set-up: let fix = initialize_viewport_support_with_fix(&mut ctx)
LoopEnableClosure ==
    /\ stage = "enable"
    /\ fix_style = "closure"
    /\ ctx_initialize_viewport_support_with_fix
    /\ stage' = "monitors"
    /\ UNCHANGED <<step, iter>>
    /\ UNCHANGED program_vars
    /\ UNCHANGED view_vars

\* set-up: ctx.io_mut().config_flags |= ConfigFlags::VIEWPORTS_ENABLE, once
LoopEnableFlag ==
    /\ stage = "enable"
    /\ fix_style = "flag_once"
    /\ ctx_set_config_flag(VIEWPORTS_ENABLE)
    /\ stage' = "monitors"
    /\ UNCHANGED <<step, iter>>
    /\ UNCHANGED program_vars
    /\ UNCHANGED view_vars

\* set-up: init_monitors(&mut ctx, &ms), then the loop begins
LoopInitMonitors(ms) ==
    /\ stage = "monitors"
    /\ ctx_init_monitors(ms)
    /\ stage' = "loop"
    /\ UNCHANGED <<step, iter>>
    /\ UNCHANGED program_vars
    /\ UNCHANGED view_vars

\* top of a frame: apply_viewport_fix(&mut ctx)
LoopFixApply ==
    /\ CurrentStep = "fix"
    /\ fix_style = "apply"
    /\ ctx_apply_viewport_fix
    /\ Advance
    /\ UNCHANGED iter
    /\ UNCHANGED program_vars
    /\ UNCHANGED view_vars

\* top of a frame: fix(&mut ctx), the closure
LoopFixClosure ==
    /\ CurrentStep = "fix"
    /\ fix_style = "closure"
    /\ ctx_fix_closure
    /\ Advance
    /\ UNCHANGED iter
    /\ UNCHANGED program_vars
    /\ UNCHANGED view_vars

\* new_frame() on the viewports: the draw data of the frame before is no longer
\* valid; the library resets the pointers or leaves them as they are
new_frame_viewports(vps, keep) ==
    [i \in 1..Len(vps) |-> [vps[i] EXCEPT !.draw_data = IF keep THEN @ ELSE NullPtr]]

\* render() on the viewports: the main viewport gets the frame's draw data, a
\* further viewport gets it too or, without visible content, a null pointer
render_viewports(vps, frame, other) ==
    [i \in 1..Len(vps) |-> [vps[i] EXCEPT !.draw_data = IF i = 1 THEN frame ELSE other]]

\* update_platform_windows() on the viewports: create_window for every viewport
\* without a platform window, while the frame runs with viewports enabled and
\* its window is still outside; otherwise destroy_window and the viewport goes
update_viewports(vps, keep_ext, handle) ==
    IF keep_ext
    THEN [i \in 1..Len(vps) |->
             IF i > 1 /\ ~vps[i].platform_window_created
             THEN [vps[i] EXCEPT !.platform_window_created = TRUE,
                                 !.platform_handle = handle]
             ELSE vps[i]]
    ELSE <<vps[1]>>

\* faulty variant: every frame runs with viewports enabled
frame_viewports_enabled_always(flags) == TRUE

\* whether a frame runs with viewports enabled: the flag as new_frame() finds it
frame_viewports_enabled(flags) == VIEWPORTS_ENABLE \in flags

\* ctx.new_frame()
LoopNewFrame ==
    /\ CurrentStep = "new_frame"
    /\ ctx_new_frame
    /\ viewports_active' = frame_viewports_enabled(ConfigFlags)
    /\ \E keep \in BOOLEAN : viewports' = new_frame_viewports(viewports, keep)
    /\ ext_outside' = FALSE
    /\ calls_in_frame' = <<"new_frame">>
    /\ Advance
    /\ UNCHANGED <<iter, create_window_calls, last_read>>
    /\ UNCHANGED program_vars

\* the frame's UI: ui.window(..).position(..) inside or outside the main viewport
LoopBuildUi(outside) ==
    /\ CurrentStep = "build_ui"
    /\ ~asserted
    /\ ext_outside' = outside
    /\ viewports' = IF outside /\ viewports_active /\ Len(viewports) = 1
                    THEN Append(viewports, NewViewport(CHOOSE id \in ExtViewportIds : TRUE))
                    ELSE viewports
    /\ last_call' = Call("build_ui", <<>>, 0, 0, 0)
    /\ Advance
    /\ UNCHANGED <<iter, viewports_active, create_window_calls, calls_in_frame, last_read>>
    /\ UNCHANGED program_vars
    /\ UNCHANGED docking
    /\ UNCHANGED frame_vars
    /\ UNCHANGED mon_vars
    /\ UNCHANGED flag_vars

\* ctx.render()
LoopRender ==
    /\ CurrentStep = "render"
    /\ ctx_render
    /\ \E other \in {NullPtr, frame_count} :
           viewports' = render_viewports(viewports, frame_count, other)
    /\ calls_in_frame' = Append(calls_in_frame, "render")
    /\ Advance
    /\ UNCHANGED <<iter, viewports_active, ext_outside, create_window_calls, last_read>>
    /\ UNCHANGED program_vars

\* what a look at viewport vp records
Read(via, vp, dd) ==
    [via |-> via, id |-> vp.id, frame |-> frame_count, main |-> is_main(vp),
     ptr |-> vp.draw_data, dd |-> dd,
     raw_handle |-> vp.platform_handle, handle |-> platform_handle_as(vp),
     calls |-> calls_in_frame]

\* renderer.render_main(main_draw_data), the draw data ctx.render() returned
LoopReadMain ==
    /\ CurrentStep = "read_main"
    /\ ~asserted
    /\ last_read' = Read("render", main_viewport, Some(main_viewport.draw_data))
    /\ last_call' = Call("render_main", <<>>, 0, 0, 0)
    /\ Advance
    /\ UNCHANGED <<iter, viewports, viewports_active, ext_outside, create_window_calls,
                   calls_in_frame>>
    /\ UNCHANGED program_vars
    /\ UNCHANGED docking
    /\ UNCHANGED frame_vars
    /\ UNCHANGED mon_vars
    /\ UNCHANGED flag_vars

\* ctx.update_platform_windows(): the viewport callbacks happen here
LoopUpdatePlatformWindows ==
    /\ CurrentStep = "update_platform_windows"
    /\ ctx_update_platform_windows
    /\ LET keep_ext == viewports_active /\ ext_outside
           created == {i \in 2..Len(viewports) :
                          keep_ext /\ ~viewports[i].platform_window_created}
       IN  /\ \E handle \in Handles :
                  viewports' = update_viewports(viewports, keep_ext, handle)
           /\ create_window_calls' = create_window_calls + Cardinality(created)
    /\ calls_in_frame' = Append(calls_in_frame, "update_platform_windows")
    /\ Advance
    /\ UNCHANGED <<iter, viewports_active, ext_outside, last_read>>
    /\ UNCHANGED program_vars

\* one turn of `for viewport in ctx.viewports()`, or the loop's end
LoopReadViewport ==
    /\ CurrentStep = "read_viewports"
    /\ ~asserted
    /\ IF iter <= Len(viewports)
       THEN LET vp == viewports[iter]
            IN  /\ last_read' =
                       IF loop_kind = "main_first" /\ is_main(vp)
                       THEN Read("skipped", vp, None(NullPtr))      \* continue
                       ELSE Read("draw_data", vp, draw_data(vp))
                /\ iter' = iter + 1
                /\ UNCHANGED <<stage, step>>
       ELSE /\ iter' = 1
            /\ Advance
            /\ UNCHANGED last_read
    /\ last_call' = Call("viewports", <<>>, 0, 0, 0)
    /\ UNCHANGED <<viewports, viewports_active, ext_outside, create_window_calls,
                   calls_in_frame>>
    /\ UNCHANGED program_vars
    /\ UNCHANGED docking
    /\ UNCHANGED frame_vars
    /\ UNCHANGED mon_vars
    /\ UNCHANGED flag_vars

\* ctx.render_platform_windows_default()
LoopRenderPlatformWindowsDefault ==
    /\ CurrentStep = "render_platform_windows_default"
    /\ ctx_render_platform_windows_default
    /\ calls_in_frame' = Append(calls_in_frame, "render_platform_windows_default")
    /\ Advance
    /\ UNCHANGED <<iter, viewports, viewports_active, ext_outside, create_window_calls,
                   last_read>>
    /\ UNCHANGED program_vars

LoopNext ==
    \/ LoopEnableApply
    \/ LoopEnableClosure
    \/ LoopEnableFlag
    \/ \E ms \in SetupMonitorSlices : LoopInitMonitors(ms)
    \/ LoopFixApply
    \/ LoopFixClosure
    \/ LoopNewFrame
    \/ \E outside \in BOOLEAN : LoopBuildUi(outside)
    \/ LoopRender
    \/ LoopReadMain
    \/ LoopUpdatePlatformWindows
    \/ LoopReadViewport
    \/ LoopRenderPlatformWindowsDefault

LoopSpec == LoopInit /\ [][LoopNext]_vars

\* the client is a sequential program: while a step is enabled it is taken
LoopFairSpec == LoopInit /\ [][LoopNext]_vars /\ WF_vars(LoopNext)


----------------------------------------------------------------------------
(* Properties *)

ViewportsEnabled == VIEWPORTS_ENABLE \in io_config_flags

\* the caller's loop body has run to its end (render_platform_windows_default returned)
LoopEnded == frame_count > 0 /\ phase = "idle"

C2_FixSetsBothSides ==
    last_call.op = "apply_viewport_fix" =>
        (ViewportsEnabled /\ (cpp_flags \cap viewport_bit) # {})

\* C2 witness: apply_viewport_fix has just returned, called when a render()
\* had reset the bit.
C2_Witness ==
    /\ last_call.op = "apply_viewport_fix"
    /\ last_call.pre = "cleared_by_render"
    /\ ViewportsEnabled

\* C3 (as stated): while the bit is reset by a render() after having been set,
\* and until it is set again, is_viewport_issue_present returns true.
C3_AsStated ==
    flag_hist = "cleared_by_render" => is_viewport_issue_present

\* C4: when the last monitor-list call before the first new_frame() passed at
\* least one monitor, no such call is made inside the loop and the fix is
\* applied before every frame, no native frame step reaches the assertion
\* "Platform init didn't setup Monitors list?".
C4_NoMonitorsAssertion ==
    (/\ docking
     /\ frame_count > 0
     /\ mon_at_first_frame = "init_nonempty"
     /\ ~mon_call_in_loop
     /\ all_fixed) => ~asserted

\* C4 witness: two full frames of such a loop have run with viewports enabled.
C4_Witness ==
    /\ docking
    /\ frame_count >= 2
    /\ mon_at_first_frame = "init_nonempty"
    /\ ~mon_call_in_loop
    /\ all_fixed
    /\ nf_flag
    /\ last_call.op = "render_platform_windows_default"
    /\ ~asserted

\* the PlatformMonitor the claims expect for a MonitorData
ExpectedMonitor(data) ==
    [main_pos |-> data.position, main_size |-> data.size,
     work_pos |-> data.work_pos, work_size |-> data.work_size,
     dpi_scale |-> data.dpi_scale, platform_handle |-> NullHandle]

\* C5: with docking, after init_monitors(ctx, ms) monitor_count is the length
\* of ms and the monitor list holds one entry per element of ms, in order,
\* field by field, with a null platform_handle.
C5_InitMonitorsPopulates ==
    (docking /\ last_call.op = "init_monitors") =>
        /\ monitor_count = Len(last_call.monitors)
        /\ Len(Monitors) = Len(last_call.monitors)
        /\ \A i \in 1..Len(last_call.monitors) :
               Monitors[i] = ExpectedMonitor(last_call.monitors[i])

\* C5 witness: init_monitors was just called with two different monitors.
C5_Witness ==
    /\ docking
    /\ last_call.op = "init_monitors"
    /\ Len(last_call.monitors) = 2
    /\ last_call.monitors[1] # last_call.monitors[2]
    /\ monitor_count = 2

\* the state the claims expect after init_single_monitor(ctx, w, h, d)
SingleMonitorPost ==
    /\ Monitors = << [main_pos |-> <<0, 0>>,
                      main_size |-> <<last_call.width, last_call.height>>,
                      work_pos |-> <<0, 0>>,
                      work_size |-> <<last_call.width, last_call.height>>,
                      dpi_scale |-> last_call.dpi_scale,
                      platform_handle |-> NullHandle] >>
    /\ monitors_initialized
    /\ monitor_count = 1

\* C6 (as amended): with the docking feature, after init_single_monitor(ctx,
\* w, h, d) the list holds exactly one monitor at [0, 0] with both sizes
\* [w, h] and dpi_scale d; monitors_initialized is true and monitor_count is 1.
C6_InitSingleMonitor ==
    (docking /\ last_call.op = "init_single_monitor") => SingleMonitorPost

\* C6 witness: init_single_monitor has just replaced a different list.
C6_Witness ==
    /\ docking
    /\ last_call.op = "init_single_monitor"
    /\ last_call.pre_mon = "init_nonempty"
    /\ last_call.dpi_scale = 150
    /\ monitor_count = 1

\* C6 (as stated): after init_single_monitor(ctx, w, h, d), in any build.
C6_AsStated ==
    last_call.op = "init_single_monitor" => SingleMonitorPost

\* C7: after clear_monitors(ctx), monitors_initialized is false and
\* monitor_count is 0, whatever was initialized before.
C7_ClearMonitors ==
    last_call.op = "clear_monitors" =>
        (~monitors_initialized /\ monitor_count = 0 /\ Monitors = <<>>)

\* C7 witness: clear_monitors was just called on a populated list.
C7_Witness ==
    /\ docking
    /\ last_call.op = "clear_monitors"
    /\ last_call.pre_mon = "init_nonempty"
    /\ monitor_count = 0

\* C8: before any init_monitors / init_single_monitor / clear_monitors call,
\* monitors_initialized is false and monitor_count is 0, also once viewports
\* are enabled or the fix has been applied.
C8_FreshContextHasNoMonitors ==
    mon_hist = "none" => (~monitors_initialized /\ monitor_count = 0)

\* C8 witness: the fix was applied on a context whose monitors were never set.
C8_Witness ==
    /\ docking
    /\ mon_hist = "none"
    /\ last_call.op = "apply_viewport_fix"
    /\ ViewportsEnabled
    /\ monitor_count = 0

\* C9: once monitors are initialized, they persist while no monitor-list call
\* is made: through any number of apply_viewport_fix / new_frame / render
\* cycles monitors_initialized stays true and monitor_count stays the number
\* that was set.
C9_MonitorsPersist ==
    (docking /\ mon_hist = "init_nonempty") =>
        (monitors_initialized /\ monitor_count = mon_len)

\* C9 witness: two render() calls have completed since the monitors were set.
C9_Witness ==
    /\ docking
    /\ mon_hist = "init_nonempty"
    /\ frames_since_mon >= 2
    /\ fix_pending
    /\ monitor_count = mon_len

\* C10: without the docking feature the three calls are no-ops: after any
\* sequence of them the monitor list is untouched, monitors_initialized is
\* false and monitor_count is 0.
C10_StubsAreNoOps ==
    ~docking => (Monitors = <<>> /\ ~monitors_initialized /\ monitor_count = 0)

\* C10 witness: without docking, init_monitors was just called with two
\* monitors after an earlier monitor-list call.
C10_Witness ==
    /\ ~docking
    /\ last_call.op = "init_monitors"
    /\ Len(last_call.monitors) = 2
    /\ last_call.pre_mon # "none"
    /\ monitor_count = 0

\* C19: monitors_initialized(ctx) is true exactly when monitor_count(ctx) > 0,
\* in every state any sequence of init_monitors, init_single_monitor,
\* clear_monitors, apply_viewport_fix, new_frame and render reaches.
C19_InitializedIffCountPositive ==
    monitors_initialized <=> (monitor_count > 0)

\* C19 witness: a frame was rendered with exactly one monitor in the list.
C19_Witness ==
    /\ docking
    /\ last_call.op = "render"
    /\ Len(Monitors) = 1
    /\ monitors_initialized
    /\ monitor_count = 1

----------------------------------------------------------------------------
(* Properties of the render loop *)

Range(seq) == {seq[i] : i \in 1..Len(seq)}

IsPrefix(a, b) == Len(a) <= Len(b) /\ \A i \in 1..Len(a) : a[i] = b[i]

\* the native steps of one frame, in the documented order
DocumentedOrder ==
    <<"new_frame", "render", "update_platform_windows", "render_platform_windows_default">>

\* a viewport other than the first has its platform window
HasPlatformWindow ==
    \E i \in 2..Len(viewports) : viewports[i].platform_window_created

\* C11: with the fix applied before each frame and monitors initialized, once
\* the frame's UI positions a window outside the main viewport, create_window
\* is eventually invoked for a viewport other than the main one.
C11_OutsideWindowGetsPlatformWindow ==
    (fix_style \in {"apply", "closure"} /\ monitors_initialized
        /\ stage = "loop" /\ ext_outside /\ ~HasPlatformWindow)
    ~> (HasPlatformWindow /\ create_window_calls > 0)

\* C11 witness: update_platform_windows() of the second frame has just invoked
\* create_window, after the first frame's render() had reset the flag.
C11_Witness ==
    /\ fix_style \in {"apply", "closure"}
    /\ monitors_initialized
    /\ frame_count = 2
    /\ render_cleared
    /\ last_call.op = "update_platform_windows"
    /\ ext_outside
    /\ create_window_calls = 1
    /\ HasPlatformWindow

\* C12: in every frame the native steps are called in the order new_frame,
\* render, update_platform_windows, render_platform_windows_default, and the
\* documented loops read a further viewport's draw data only after the
\* frame's update_platform_windows().
C12_FrameStepsInOrder ==
    /\ IsPrefix(calls_in_frame, DocumentedOrder)
    /\ (loop_kind \in {"main_first", "uniform"} /\ last_read.via = "draw_data"
            /\ ~last_read.main)
        => IsPrefix(<<"new_frame", "render", "update_platform_windows">>, last_read.calls)

\* C12 witness: a frame ran all four steps and a further viewport's draw data
\* was read in it.
C12_Witness ==
    /\ loop_kind = "main_first"
    /\ calls_in_frame = DocumentedOrder
    /\ last_read.via = "draw_data"
    /\ ~last_read.main
    /\ last_read.dd.tag = "Some"
    /\ last_read.frame = frame_count

\* C13: in the documented loops every draw data that is read, the main
\* viewport's or a further one's, was produced by the render() of the running
\* frame: it is read after that render() and before the next new_frame().
C13_DrawDataReadWhileValid ==
    (loop_kind \in {"main_first", "uniform"} /\ last_read.via \in {"render", "draw_data"}
        /\ last_read.dd.tag = "Some")
    => /\ last_read.dd.value = last_read.frame
       /\ "render" \in Range(last_read.calls)

\* C13 witness: in the second frame of the uniform loop a further viewport's
\* draw data, produced by that frame, was read.
C13_Witness ==
    /\ loop_kind = "uniform"
    /\ last_read.via = "draw_data"
    /\ ~last_read.main
    /\ last_read.frame = 2
    /\ last_read.dd = Some(2)

\* C14: Viewport::draw_data() returns None exactly when the draw-data pointer
\* is null and Some otherwise, and what Some holds is the pointer's target: a
\* null pointer is never dereferenced, also when every viewport is looked at
\* inside a frame before render().
C14_DrawDataNullSafe ==
    last_read.via = "draw_data" =>
        /\ (last_read.dd.tag = "None") <=> (last_read.ptr = NullPtr)
        /\ last_read.dd.tag = "Some" =>
               (last_read.dd.value = last_read.ptr /\ last_read.dd.value # NullPtr)

\* C14 witness: a viewport other than the main one was looked at between
\* new_frame() and render(), its pointer was null and draw_data() gave None.
C14_Witness ==
    /\ loop_kind = "probe"
    /\ last_read.via = "draw_data"
    /\ ~last_read.main
    /\ last_read.calls = <<"new_frame">>
    /\ last_read.ptr = NullPtr
    /\ last_read.dd.tag = "None"

\* C15: the main viewport always exists: ctx.viewports() yields at least one
\* viewport and one of them satisfies is_main(); is_main() is true exactly
\* of the viewport whose id is 0x11111111, and of ctx.main_viewport().
C15_MainViewportExists ==
    /\ Len(viewports) >= 1
    /\ \E i \in 1..Len(viewports) : is_main(viewports[i])
    /\ \A i \in 1..Len(viewports) :
           is_main(viewports[i]) <=> (viewports[i].id = IMGUI_VIEWPORT_DEFAULT_ID)
    /\ is_main(main_viewport)
    /\ last_read.via # "none" => (last_read.main <=> (last_read.id = IMGUI_VIEWPORT_DEFAULT_ID))

\* C15 witness: inside a frame with two viewports, the one that was looked at
\* last is not the main one.
C15_Witness ==
    /\ phase = "frame"
    /\ Len(viewports) = 2
    /\ is_main(main_viewport)
    /\ ~is_main(viewports[2])
    /\ last_read.via = "draw_data"
    /\ last_read.frame = frame_count
    /\ ~last_read.main

\* C16: initialize_viewport_support_with_fix sets VIEWPORTS_ENABLE at once,
\* each call of the closure it returns sets it again, and with the closure
\* called before every new_frame() the flag is set at every new_frame().
C16_ClosureKeepsFlagSet ==
    /\ last_call.op \in {"initialize_viewport_support_with_fix", "fix_closure"}
           => ViewportsEnabled
    /\ (fix_style = "closure" /\ frame_count > 0) => nf_flag

\* C16 witness: the second new_frame() of a client using the closure, after the
\* first frame's render() had reset the flag.
C16_Witness ==
    /\ fix_style = "closure"
    /\ last_call.op = "new_frame"
    /\ frame_count = 2
    /\ render_cleared
    /\ nf_flag

\* C18: Viewport::platform_handle_as::<T>() returns None when platform_handle
\* is null and Some, of the handle's target, when it is not.
C18_PlatformHandleNullSafe ==
    last_read.via # "none" =>
        /\ (last_read.handle.tag = "None") <=> (last_read.raw_handle = NullHandle)
        /\ last_read.handle.tag = "Some" => last_read.handle.value = last_read.raw_handle

\* C18 witness: a viewport whose create_window stored an OS window in
\* platform_handle was looked at, and platform_handle_as gave Some.
C18_Witness ==
    /\ last_read.via = "draw_data"
    /\ ~last_read.main
    /\ last_read.raw_handle = "os_window"
    /\ last_read.handle = Some("os_window")

----------------------------------------------------------------------------
(* Properties of single calls *)

\* C21: init_monitors with an empty slice leaves the monitor list empty, the
\* state clear_monitors leaves: monitor_count is 0, monitors_initialized is
\* false, and with VIEWPORTS_ENABLE set the native monitor-list precondition
\* is unmet.
C21_InitMonitorsEmptyClears ==
    (last_call.op = "init_monitors" /\ Len(last_call.monitors) = 0) =>
        /\ Monitors = <<>>
        /\ Monitors = clear_monitors
        /\ monitor_count = 0
        /\ ~monitors_initialized
        /\ ViewportsEnabled => MonitorsPreconditionUnmet

\* C21 witness: with viewports enabled, init_monitors was called with an
\* empty slice on a list of two monitors.
C21_Witness ==
    /\ docking
    /\ last_call.op = "init_monitors"
    /\ Len(last_call.monitors) = 0
    /\ last_call.pre_mon = "init_nonempty"
    /\ last_call.pre_len = 2
    /\ ViewportsEnabled
    /\ MonitorsPreconditionUnmet

\* C22: a call of apply_viewport_fix changes only the VIEWPORTS_ENABLE bit:
\* every other config flag bit and the monitor list are as before the call.
C22_FixChangesOnlyViewportBit ==
    [][last_call'.op = "apply_viewport_fix" =>
          /\ ConfigFlags' \ viewport_bit = ConfigFlags \ viewport_bit
          /\ Monitors' = Monitors]_vars

\* C22 witness: apply_viewport_fix has returned on a context with
\* DOCKING_ENABLE set and two monitors, after a render() had reset the bit.
C22_Witness ==
    /\ last_call.op = "apply_viewport_fix"
    /\ last_call.pre = "cleared_by_render"
    /\ ConfigFlags = {VIEWPORTS_ENABLE, DOCKING_ENABLE}
    /\ Len(Monitors) = 2

\* the monitor list the three monitor-list calls leave, from their arguments alone
MonitorCallPost(call) ==
    IF call.op = "clear_monitors" THEN <<>>
    ELSE [i \in 1..Len(call.monitors) |-> ExpectedMonitor(call.monitors[i])]

\* C23: init_monitors, init_single_monitor and clear_monitors leave the config
\* flags as they were, and what they leave in the monitor list is decided by
\* their arguments alone, whether or not VIEWPORTS_ENABLE is set.
C23_MonitorCallsIgnoreFlags ==
    [][last_call'.op \in {"init_monitors", "init_single_monitor", "clear_monitors"} =>
          /\ ConfigFlags' = ConfigFlags
          /\ Monitors' = IF docking THEN MonitorCallPost(last_call') ELSE Monitors]_vars

\* C23 witness: with VIEWPORTS_ENABLE and DOCKING_ENABLE set, clear_monitors
\* has emptied a list of two monitors.
C23_Witness ==
    /\ docking
    /\ last_call.op = "clear_monitors"
    /\ last_call.pre_len = 2
    /\ ConfigFlags = {VIEWPORTS_ENABLE, DOCKING_ENABLE}
    /\ Monitors = <<>>

\* C24: apply_viewport_fix is idempotent: right after a call, a second call
\* would leave the config flags as they are; and after any call
\* is_viewport_issue_present returns false.
C24_FixIdempotent ==
    last_call.op = "apply_viewport_fix" =>
        /\ apply_viewport_fix(ConfigFlags) = ConfigFlags
        /\ ~is_viewport_issue_present

\* C24 witness: apply_viewport_fix has returned on a context whose
\* VIEWPORTS_ENABLE bit was already set.
C24_Witness ==
    /\ last_call.op = "apply_viewport_fix"
    /\ last_call.pre = "set"
    /\ fix_pending
    /\ ViewportsEnabled
    /\ ~is_viewport_issue_present

\* C26: MonitorData::default() is a monitor at position [0, 0] with size
\* [1920, 1080], work_pos [0, 0], work_size [1920, 1080] and dpi_scale 1.0,
\* and that is the monitor init_monitors stores for it.
C26_MonitorDataDefault ==
    /\ MonitorData_default.position = <<0, 0>>
    /\ MonitorData_default.size = <<1920, 1080>>
    /\ MonitorData_default.work_pos = <<0, 0>>
    /\ MonitorData_default.work_size = <<1920, 1080>>
    /\ MonitorData_default.dpi_scale = 100
    /\ (docking /\ last_call.op = "init_monitors"
           /\ last_call.monitors = <<MonitorData_default>>)
       => Monitors = <<[main_pos |-> <<0, 0>>, main_size |-> <<1920, 1080>>,
                        work_pos |-> <<0, 0>>, work_size |-> <<1920, 1080>>,
                        dpi_scale |-> 100, platform_handle |-> NullHandle]>>

\* C26 witness: init_monitors was called with MonitorData::default() alone and
\* the list holds the 1920 x 1080 monitor at the origin.
C26_Witness ==
    /\ docking
    /\ last_call.op = "init_monitors"
    /\ last_call.monitors = <<MonitorData_default>>
    /\ Monitors[1].main_pos = <<0, 0>>
    /\ Monitors[1].main_size = <<1920, 1080>>
    /\ Monitors[1].dpi_scale = 100

----------------------------------------------------------------------------
(* The flag at frame start *)

\* C25: create_window is invoked only in frames whose new_frame() found
\* VIEWPORTS_ENABLE set; when the flag is set once before the first
\* new_frame() and never re-applied, it is cleared when a render() returns and
\* no create_window is invoked in a frame after the first.
C25_CreateWindowNeedsFlagAtFrameStart ==
    [][/\ create_window_calls' > create_window_calls => nf_flag
       /\ fix_style = "flag_once" =>
              /\ last_call'.op = "render" => VIEWPORTS_ENABLE \notin ConfigFlags'
              /\ frame_count > 1 => create_window_calls' = create_window_calls]_vars

\* C25 witness: the flag was set once, the first frame created a platform
\* window, its render() cleared the flag, and the second frame, with a window
\* outside again, has passed update_platform_windows() without a create_window.
C25_Witness ==
    /\ fix_style = "flag_once"
    /\ flag_hist = "cleared_by_render"
    /\ frame_count = 2
    /\ ~nf_flag
    /\ ext_outside
    /\ "update_platform_windows" \in Range(calls_in_frame)
    /\ create_window_calls = 1
    /\ ~HasPlatformWindow

====
